---- MODULE Spec2Model ----
(***************************************************************************)
(* State-machine model of runtime/criusupport/criusupport.c: the JNI       *)
(* natives isCRIUSupportEnabledImpl and checkpointJVMImpl, executed by the *)
(* threads of one process.  Each thread's position in checkpointJVMImpl is *)
(* a program counter named after the C label or call it is about to        *)
(* execute.  The process-wide state is the descriptor table, the options   *)
(* of the CRIU library, exclusive VM access and the JNI ids cached in the  *)
(* J9JavaVM structure.                                                     *)
(***************************************************************************)
EXTENDS Integers, Sequences, FiniteSets, TLC

\* ------------------------------------------------------------- bounds
\* Highest descriptor number of the process's descriptor table.  Descriptor
\* 0 is standard input; the other standard streams are never named by the
\* code and are left out.
MaxFD == 2
\* checkpointJVMImpl calls made in the process, by whichever threads.
MaxCalls == 2

STRING_BUFFER_SIZE == 256

Threads == {"t1", "t2"}
NoThread == "none"
FDs == 0 .. MaxFD

\* ------------------------------------------------------------- state
VARIABLES
    fdTable,            \* descriptor -> "free", "env" (inherited) or the thread whose call opened it
    criuOpts,           \* libcriu's process-global options
    exclusiveOwner,     \* the thread holding exclusive VM access, or NoThread
    vmAccess,           \* thread -> holds (shared) VM access
    checkpointAllowed,  \* vmFuncs->isCheckpointAllowed(), fixed for the process
    criuSupportEnabled, \* vmFuncs->isCRIUSupportEnabled(), fixed for the process
    fieldIDs,           \* vm->criuSupport* / criuResult* ids cached by setupJNIFieldIDs
    crashed,            \* the process died (assertion, JNI call on a NULL id)
    pc,                 \* thread -> next step of checkpointJVMImpl
    calls,              \* checkpointJVMImpl calls started so far
    request,            \* thread -> arguments of the current call
    dirFD,              \* thread -> local IDATA dirFD
    workDirFD,          \* thread -> local IDATA workDirFD
    resultType,         \* thread -> local jfieldID resultType
    isAfterCheckpoint,  \* thread -> local BOOLEAN isAfterCheckpoint
    currentException,   \* thread -> currentThread->currentException
    converterStatus,    \* thread -> lowest value omrstr_convert returned to the current call (0: no error)
    trace               \* thread -> calls the current invocation has made to the outside

vars == << fdTable, criuOpts, exclusiveOwner, vmAccess, checkpointAllowed,
           criuSupportEnabled, fieldIDs, crashed, pc, calls, request, dirFD,
           workDirFD, resultType, isAfterCheckpoint, currentException,
           converterStatus, trace >>

procVars == << checkpointAllowed, criuSupportEnabled >>
localVars == << request, dirFD, workDirFD, resultType, isAfterCheckpoint,
                currentException, converterStatus >>

\* ------------------------------------------------------------- values
ResultTypes == { "Success", "UnsupportedOperation", "InvalidArguments",
                 "SystemCheckpointFailure", "JvmCheckpointFailure",
                 "JvmRestoreFailure" }

\* An entry of trace: the call, the descriptor it names, its return value
\* and, for close, the owner of the descriptor when the call was made.
Event(op, fd, ret, owner) == [op |-> op, fd |-> fd, ret |-> ret, owner |-> owner]

Count(tr, op) == Cardinality({i \in DOMAIN tr : tr[i].op = op})
CountOK(tr, op) == Cardinality({i \in DOMAIN tr : tr[i].op = op /\ tr[i].ret >= 0})
Has(tr, op) == \E i \in DOMAIN tr : tr[i].op = op
Failed(tr, op) == \E i \in DOMAIN tr : tr[i].op = op /\ tr[i].ret < 0
Succeeded(tr, op) == \E i \in DOMAIN tr : tr[i].op = op /\ tr[i].ret >= 0

\* ------------------------------------------------ operating system
\* open(2) returns the lowest descriptor not in use.
LowestFree(table) == CHOOSE fd \in FDs : table[fd] = "free" /\ \A g \in FDs : g < fd => table[g] # "free"

\* open(path, O_DIRECTORY): pathOK says the path names a directory that can
\* be opened; the call also fails when the table is full.
open(table, pathOK) ==
    IF pathOK /\ \E fd \in FDs : table[fd] = "free" THEN LowestFree(table) ELSE -1

\* close(2): EBADF for a descriptor that is not open; otherwise the
\* descriptor is released (as Linux does even when it reports an I/O error).
close(table, fd, ioError) ==
    IF fd \notin FDs \/ table[fd] = "free" \/ ioError THEN -1 ELSE 0

Released(table, fd) == IF fd \in FDs THEN [table EXCEPT ![fd] = "free"] ELSE table

\* ------------------------------------------------ libcriu
DefaultOpts(ok) == [init |-> ok, images_dir_fd |-> -1, work_dir_fd |-> -1, owner |-> NoThread]

\* ------------------------------------------------ exclusive VM access
\* internalEnterVMFromJNI waits while some thread holds exclusive access.
CanEnterVM(t) == exclusiveOwner = NoThread

\* acquireExclusiveVMAccess waits until no thread holds exclusive access and
\* every other thread has given up VM access or is itself waiting to acquire.
CanAcquireExclusive(t) ==
    /\ exclusiveOwner = NoThread
    /\ \A u \in Threads \ {t} : vmAccess[u] => pc[u] = "acquire"

\* ------------------------------------------------ JNI ids
\* Reading vm->criuSupport<name>: NULL until setupJNIFieldIDs has run.
VMField(name) == IF fieldIDs THEN name ELSE "NULL"

\* ------------------------------------------------ getNativeString
WordBits == 16
UDATA_MAX == 2^WordBits - 1
ToUDATA(x) == x % (UDATA_MAX + 1)
\* Largest request j9mem_allocate_memory can satisfy.
MaxAlloc == 1024
\* Return values of omrstr_convert: a length, or a negative error code.
ConvReturns == {-2, 10, 300}

j9mem_allocate_memory(size, memOK) == memOK /\ size <= MaxAlloc

\* The comparisons are made on the UDATA requiredConvertedStringSize.
\* `converter` is the last value omrstr_convert returned (0 when it returned
\* a length or was not called): what the call observed, not a value the code
\* keeps.
getNativeString(copyOK, sizeRet, memOK, convRet) ==
    IF ~copyOK
    THEN [res |-> FALSE, resultType |-> "JvmCheckpointFailure", exception |-> "OutOfMemoryError", converter |-> 0]
    ELSE LET sizeQuery == ToUDATA(sizeRet)
             required == ToUDATA(sizeQuery + 1)
             converted == ToUDATA(convRet)
         IN  IF sizeQuery < 0
             THEN [res |-> FALSE, resultType |-> "InvalidArguments", exception |-> "FAILED_TO_CONVERT_JAVA_STRING",
                   converter |-> sizeRet]
             ELSE IF required > STRING_BUFFER_SIZE /\ ~j9mem_allocate_memory(required, memOK)
             THEN [res |-> FALSE, resultType |-> "JvmCheckpointFailure", exception |-> "OutOfMemoryError",
                   converter |-> IF sizeRet < 0 THEN sizeRet ELSE 0]
             ELSE IF converted < 0
             THEN [res |-> FALSE, resultType |-> "InvalidArguments", exception |-> "FAILED_TO_CONVERT_JAVA_STRING",
                   converter |-> convRet]
             ELSE [res |-> TRUE, resultType |-> "unchanged", exception |-> "unchanged",
                   converter |-> IF convRet < 0 THEN convRet ELSE IF sizeRet < 0 THEN sizeRet ELSE 0]

\* Every result getNativeString can hand back for some behaviour of its callees.
NativeStringResults ==
    { getNativeString(c, s, m, r) : c \in BOOLEAN, s \in ConvReturns, m \in BOOLEAN, r \in ConvReturns }

\* ------------------------------------------------ branches of checkpointJVMImpl
\* EntryPC without the permission check.
EntryPC_NoGate(allowed) == "enterVM"

EntryPC(allowed) == IF allowed THEN "enterVM" ELSE "return"

AfterConvDir(res, hasLog) ==
    IF ~res THEN "freeDir" ELSE IF hasLog THEN "convLog" ELSE "openDir"

AfterConvLog(res) == IF ~res THEN "freeLog" ELSE "openDir"

\* AfterOpenDir unwinding a failed open through the close of dirFD.
AfterOpenDir_CloseUnopened(fd, hasWorkDir) ==
    IF fd < 0 THEN "freeWorkDir" ELSE IF hasWorkDir THEN "convWork" ELSE "initOpts"

AfterOpenDir(fd, hasWorkDir) ==
    IF fd < 0 THEN "freeLog" ELSE IF hasWorkDir THEN "convWork" ELSE "initOpts"

AfterConvWork(res) == IF ~res THEN "freeWorkDir" ELSE "openWork"

AfterOpenWork(fd) == IF fd < 0 THEN "freeWorkDir" ELSE "initOpts"

AfterInitOpts(rc) == IF rc # 0 THEN "closeWorkDirFD" ELSE "setOpts"

\* AfterCheckpointHooks jumping past the release of exclusive access.
AfterCheckpointHooks_SkipRelease(ok) == IF ok THEN "dump" ELSE "closeWorkDirFD"

\* AfterCheckpointHooks ignoring the hooks' result.
AfterCheckpointHooks_Ignored(ok) == "dump"

AfterCheckpointHooks(ok) == IF ok THEN "dump" ELSE "releaseExclusive"

\* AfterDump ignoring the status of criu_dump.
AfterDump_Ignored(rc) == "restoreHooks"

AfterDump(rc) == IF rc < 0 THEN "releaseExclusive" ELSE "restoreHooks"

AfterRestoreHooks(ok) == IF ok THEN VMField("Success") ELSE VMField("JvmRestoreFailure")

\* CloseFailed ignoring the return value of close.
CloseFailed_Ignored(rc) == FALSE

CloseFailed(rc) == rc # 0

\* CloseFailureResult without the isAfterCheckpoint distinction.
CloseFailureResult_NoPhase(after) == VMField("JvmCheckpointFailure")

CloseFailureResult(after) ==
    IF after THEN VMField("JvmRestoreFailure") ELSE VMField("JvmCheckpointFailure")

\* ------------------------------------------------------------- Init
\* The process has just loaded the library: no native has run, the VM
\* structure is zeroed, no thread is inside the VM.  Standard input is open,
\* or was closed by whoever started the process.
Init ==
    /\ fdTable \in { [fd \in FDs |-> IF fd = 0 THEN stdin ELSE "free"] : stdin \in {"env", "free"} }
    /\ criuOpts = DefaultOpts(FALSE)
    /\ exclusiveOwner = NoThread
    /\ vmAccess = [t \in Threads |-> FALSE]
    /\ checkpointAllowed \in BOOLEAN
    /\ criuSupportEnabled \in BOOLEAN
    /\ checkpointAllowed => criuSupportEnabled
    /\ fieldIDs = FALSE
    /\ crashed = FALSE
    /\ pc = [t \in Threads |-> "idle"]
    /\ calls = 0
    /\ request = [t \in Threads |-> [hasLog |-> FALSE, hasWorkDir |-> FALSE]]
    /\ dirFD = [t \in Threads |-> 0]
    /\ workDirFD = [t \in Threads |-> 0]
    /\ resultType = [t \in Threads |-> "NULL"]
    /\ isAfterCheckpoint = [t \in Threads |-> FALSE]
    /\ currentException = [t \in Threads |-> "none"]
    /\ converterStatus = [t \in Threads |-> 0]
    /\ trace = [t \in Threads |-> << >>]

Log(t, e) == trace' = [trace EXCEPT ![t] = Append(@, e)]
Goto(t, label) == pc' = [pc EXCEPT ![t] = label]

\* ------------------------------------------------------------- queries
\* isCRIUSupportEnabledImpl: criu_init_opts() when CRIU support is enabled,
\* then setupJNIFieldIDs, whose assertions stop the process when a class or
\* an id cannot be found.
isCRIUSupportEnabledImpl(t) ==
    /\ ~crashed
    /\ pc[t] = "idle"
    /\ \/ /\ criuSupportEnabled
          /\ \E rc \in {0, -1} : criuOpts' = DefaultOpts(rc = 0)
       \/ /\ ~criuSupportEnabled
          /\ UNCHANGED criuOpts
    /\ \E found \in BOOLEAN :
        /\ fieldIDs' = (fieldIDs \/ found)
        /\ crashed' = ~found
    /\ UNCHANGED << fdTable, exclusiveOwner, vmAccess, procVars, pc, calls,
                    localVars, trace >>

\* isCheckpointAllowed: reads vmFuncs->isCheckpointAllowed() and returns it.
isCheckpointAllowed(t) ==
    /\ ~crashed
    /\ pc[t] = "idle"
    /\ UNCHANGED vars

\* ------------------------------------------------------------- checkpointJVMImpl
\* Entry: the locals are initialised and the permission gate is read.
CheckpointCall(t) ==
    /\ ~crashed
    /\ pc[t] = "idle"
    /\ calls < MaxCalls
    /\ calls' = calls + 1
    /\ \E hasLog \in BOOLEAN, hasWorkDir \in BOOLEAN :
        request' = [request EXCEPT ![t] = [hasLog |-> hasLog, hasWorkDir |-> hasWorkDir]]
    /\ resultType' = [resultType EXCEPT ![t] = VMField("UnsupportedOperation")]
    /\ dirFD' = [dirFD EXCEPT ![t] = 0]
    /\ workDirFD' = [workDirFD EXCEPT ![t] = 0]
    /\ isAfterCheckpoint' = [isAfterCheckpoint EXCEPT ![t] = FALSE]
    /\ converterStatus' = [converterStatus EXCEPT ![t] = 0]
    /\ trace' = [trace EXCEPT ![t] = << >>]
    /\ Goto(t, EntryPC(checkpointAllowed))
    /\ UNCHANGED << fdTable, criuOpts, exclusiveOwner, vmAccess, procVars,
                    fieldIDs, crashed, currentException >>

\* What a failed getNativeString call leaves in resultType / currentException.
ConvResult(old, r) == IF r.res THEN old ELSE VMField(r.resultType)
ConvException(old, r) == IF r.res THEN old ELSE r.exception
ConvEvent(op, r) == Event(op, -1, IF r.res THEN 0 ELSE -1, NoThread)
ConvStatus(old, r) == IF r.converter < old THEN r.converter ELSE old

\* internalEnterVMFromJNI, then the conversion of imagesDir and, when a log
\* file is given and the first conversion succeeded, of logFile.
EnterVM(t) ==
    /\ ~crashed
    /\ pc[t] = "enterVM"
    /\ CanEnterVM(t)
    /\ vmAccess' = [vmAccess EXCEPT ![t] = TRUE]
    /\ \E rDir \in NativeStringResults, rLog \in NativeStringResults :
        LET afterDir == AfterConvDir(rDir.res, request[t].hasLog)
            r == IF afterDir = "convLog" THEN rLog ELSE rDir
        IN  /\ afterDir # "convLog" => rLog = rDir
            /\ resultType' = [resultType EXCEPT ![t] = ConvResult(@, r)]
            /\ currentException' = [currentException EXCEPT ![t] = ConvException(@, r)]
            /\ converterStatus' = [converterStatus EXCEPT ![t] = ConvStatus(ConvStatus(@, rDir), r)]
            /\ trace' = [trace EXCEPT ![t] =
                            IF afterDir = "convLog"
                            THEN @ \o << ConvEvent("convDir", rDir), ConvEvent("convLog", rLog) >>
                            ELSE Append(@, ConvEvent("convDir", rDir))]
            /\ Goto(t, IF afterDir = "convLog" THEN AfterConvLog(rLog.res) ELSE afterDir)
    /\ UNCHANGED << fdTable, criuOpts, exclusiveOwner, procVars, fieldIDs,
                    crashed, calls, request, dirFD, workDirFD,
                    isAfterCheckpoint >>

\* open(directoryChars, O_DIRECTORY) and, when it succeeded and a work
\* directory is given, the conversion of workDir.
OpenDir(t) ==
    /\ ~crashed
    /\ pc[t] = "openDir"
    /\ \E pathOK \in BOOLEAN, rWork \in NativeStringResults :
        LET fd == open(fdTable, pathOK)
            afterOpen == AfterOpenDir(fd, request[t].hasWorkDir)
        IN  /\ afterOpen # "convWork" => rWork.res
            /\ dirFD' = [dirFD EXCEPT ![t] = fd]
            /\ fdTable' = IF fd >= 0 THEN [fdTable EXCEPT ![fd] = t] ELSE fdTable
            /\ resultType' = [resultType EXCEPT ![t] =
                                IF fd < 0 THEN VMField("InvalidArguments")
                                ELSE IF afterOpen = "convWork" THEN ConvResult(@, rWork) ELSE @]
            /\ currentException' = [currentException EXCEPT ![t] =
                                IF fd < 0 THEN "FAILED_TO_OPEN_DIR"
                                ELSE IF afterOpen = "convWork" THEN ConvException(@, rWork) ELSE @]
            /\ converterStatus' = [converterStatus EXCEPT ![t] =
                                IF afterOpen = "convWork" THEN ConvStatus(@, rWork) ELSE @]
            /\ trace' = [trace EXCEPT ![t] =
                            IF afterOpen = "convWork"
                            THEN @ \o << Event("openDir", fd, fd, NoThread), ConvEvent("convWork", rWork) >>
                            ELSE Append(@, Event("openDir", fd, fd, NoThread))]
            /\ Goto(t, IF afterOpen = "convWork" THEN AfterConvWork(rWork.res) ELSE afterOpen)
    /\ UNCHANGED << criuOpts, exclusiveOwner, vmAccess, procVars, fieldIDs,
                    crashed, calls, request, workDirFD, isAfterCheckpoint >>

OpenWorkDir(t) ==
    /\ ~crashed
    /\ pc[t] = "openWork"
    /\ \E pathOK \in BOOLEAN :
        LET fd == open(fdTable, pathOK) IN
        /\ workDirFD' = [workDirFD EXCEPT ![t] = fd]
        /\ fdTable' = IF fd >= 0 THEN [fdTable EXCEPT ![fd] = t] ELSE fdTable
        /\ resultType' = [resultType EXCEPT ![t] =
                            IF fd < 0 THEN VMField("InvalidArguments") ELSE @]
        /\ currentException' = [currentException EXCEPT ![t] =
                            IF fd < 0 THEN "FAILED_TO_OPEN_DIR" ELSE @]
        /\ Log(t, Event("openWork", fd, fd, NoThread))
        /\ Goto(t, AfterOpenWork(fd))
    /\ UNCHANGED << criuOpts, exclusiveOwner, vmAccess, procVars, fieldIDs,
                    crashed, calls, request, converterStatus, dirFD, isAfterCheckpoint >>

InitOpts(t) ==
    /\ ~crashed
    /\ pc[t] = "initOpts"
    /\ \E rc \in {0, -1} :
        /\ criuOpts' = DefaultOpts(rc = 0)
        /\ resultType' = [resultType EXCEPT ![t] =
                            IF rc # 0 THEN VMField("SystemCheckpointFailure") ELSE @]
        /\ currentException' = [currentException EXCEPT ![t] =
                            IF rc # 0 THEN "INIT_FAILED" ELSE @]
        /\ Log(t, Event("init", -1, rc, NoThread))
        /\ Goto(t, AfterInitOpts(rc))
    /\ UNCHANGED << fdTable, exclusiveOwner, vmAccess, procVars, fieldIDs,
                    crashed, calls, request, converterStatus, dirFD, workDirFD,
                    isAfterCheckpoint >>

\* The criu_set_* calls: the options of this thread's request.
SetOpts(t) ==
    /\ ~crashed
    /\ pc[t] = "setOpts"
    /\ criuOpts' = [criuOpts EXCEPT
                        !.images_dir_fd = dirFD[t],
                        !.owner = t,
                        !.work_dir_fd = IF request[t].hasWorkDir THEN workDirFD[t] ELSE @]
    /\ Log(t, Event("configure", dirFD[t], 0, NoThread))
    /\ Goto(t, "acquire")
    /\ UNCHANGED << fdTable, exclusiveOwner, vmAccess, procVars, fieldIDs,
                    crashed, calls, localVars >>

AcquireExclusive(t) ==
    /\ ~crashed
    /\ pc[t] = "acquire"
    /\ CanAcquireExclusive(t)
    /\ exclusiveOwner' = t
    /\ Log(t, Event("acquire", -1, 0, NoThread))
    /\ Goto(t, "checkpointHooks")
    /\ UNCHANGED << fdTable, criuOpts, vmAccess, procVars, fieldIDs, crashed,
                    calls, localVars >>

CheckpointHooks(t) ==
    /\ ~crashed
    /\ pc[t] = "checkpointHooks"
    /\ \E ok \in BOOLEAN :
        /\ resultType' = [resultType EXCEPT ![t] =
                            IF ok THEN @ ELSE VMField("JvmCheckpointFailure")]
        /\ Log(t, Event("checkpointHooks", -1, IF ok THEN 0 ELSE -1, exclusiveOwner))
        /\ Goto(t, AfterCheckpointHooks(ok))
    /\ UNCHANGED << fdTable, criuOpts, exclusiveOwner, vmAccess, procVars,
                    fieldIDs, crashed, calls, request, converterStatus, dirFD, workDirFD,
                    isAfterCheckpoint, currentException >>

\* criu_dump() acts on the options in effect when it is called.
Dump(t) ==
    /\ ~crashed
    /\ pc[t] = "dump"
    /\ \E rc \in {-1, 0} :
        /\ resultType' = [resultType EXCEPT ![t] =
                            IF rc < 0 THEN VMField("SystemCheckpointFailure") ELSE @]
        /\ currentException' = [currentException EXCEPT ![t] =
                            IF rc < 0 THEN "DUMP_FAILED" ELSE @]
        /\ isAfterCheckpoint' = [isAfterCheckpoint EXCEPT ![t] = (AfterDump(rc) = "restoreHooks")]
        /\ Log(t, Event("dump", criuOpts.images_dir_fd, rc, criuOpts.owner))
        /\ Goto(t, AfterDump(rc))
    /\ UNCHANGED << fdTable, criuOpts, exclusiveOwner, vmAccess, procVars,
                    fieldIDs, crashed, calls, request, converterStatus, dirFD, workDirFD >>

RestoreHooks(t) ==
    /\ ~crashed
    /\ pc[t] = "restoreHooks"
    /\ \E ok \in BOOLEAN :
        /\ resultType' = [resultType EXCEPT ![t] = AfterRestoreHooks(ok)]
        /\ Log(t, Event("restoreHooks", -1, IF ok THEN 0 ELSE -1, exclusiveOwner))
    /\ Goto(t, "releaseExclusive")
    /\ UNCHANGED << fdTable, criuOpts, exclusiveOwner, vmAccess, procVars,
                    fieldIDs, crashed, calls, request, converterStatus, dirFD, workDirFD,
                    isAfterCheckpoint, currentException >>

ReleaseExclusive(t) ==
    /\ ~crashed
    /\ pc[t] = "releaseExclusive"
    /\ exclusiveOwner' = NoThread
    /\ Log(t, Event("release", -1, 0, exclusiveOwner))
    /\ Goto(t, "closeWorkDirFD")
    /\ UNCHANGED << fdTable, criuOpts, vmAccess, procVars, fieldIDs, crashed,
                    calls, localVars >>

\* close(fd) at `label` with the result handling of lines 325-333 / 335-343.
Close(t, label, fd, next) ==
    /\ ~crashed
    /\ pc[t] = label
    /\ \E ioError \in BOOLEAN :
        LET rc == close(fdTable, fd, ioError) IN
        /\ fdTable' = Released(fdTable, fd)
        /\ resultType' = [resultType EXCEPT ![t] =
                            IF CloseFailed(rc) THEN CloseFailureResult(isAfterCheckpoint[t]) ELSE @]
        /\ currentException' = [currentException EXCEPT ![t] =
                            IF CloseFailed(rc) THEN "FAILED_TO_CLOSE_DIR" ELSE @]
        /\ Log(t, Event("close", fd, rc, IF fd \in FDs THEN fdTable[fd] ELSE "free"))
    /\ Goto(t, next)
    /\ UNCHANGED << criuOpts, exclusiveOwner, vmAccess, procVars, fieldIDs,
                    crashed, calls, request, converterStatus, dirFD, workDirFD,
                    isAfterCheckpoint >>

\* CloseWorkDirFD closing the image directory first.
CloseWorkDirFD_ImageFirst(t) == Close(t, "closeWorkDirFD", dirFD[t], "freeWorkDir")

CloseWorkDirFD(t) == Close(t, "closeWorkDirFD", workDirFD[t], "freeWorkDir")

FreeWorkDir(t) == Close(t, "freeWorkDir", dirFD[t], "freeLog")

\* constructResult: a JNI call on a NULL class, method or field id stops the
\* process; otherwise the CRIUResult of kind resultType is returned.
constructResult(type) == IF fieldIDs /\ type \in ResultTypes THEN type ELSE "crash"

\* The invocation of thread t has nothing left to do but free its buffers,
\* leave the VM and return constructResult(env, resultType, ...).
AtReturn(t) == pc[t] \in {"freeLog", "freeDir", "return"}

\* The kind of the CRIUResult the invocation of thread t returns.
Outcome(t) == constructResult(resultType[t])

\* freeLog, freeDir, internalExitVMToJNI and return constructResult(...): the
\* invocation ends and its locals with it; an exception still pending is
\* delivered to the Java caller.
Return(t) ==
    /\ ~crashed
    /\ AtReturn(t)
    /\ crashed' = (Outcome(t) = "crash")
    /\ Goto(t, IF Outcome(t) = "crash" THEN "crashed" ELSE "idle")
    /\ vmAccess' = [vmAccess EXCEPT ![t] = FALSE]
    /\ request' = [request EXCEPT ![t] = [hasLog |-> FALSE, hasWorkDir |-> FALSE]]
    /\ dirFD' = [dirFD EXCEPT ![t] = 0]
    /\ workDirFD' = [workDirFD EXCEPT ![t] = 0]
    /\ resultType' = [resultType EXCEPT ![t] = "NULL"]
    /\ isAfterCheckpoint' = [isAfterCheckpoint EXCEPT ![t] = FALSE]
    /\ currentException' = [currentException EXCEPT ![t] = "none"]
    /\ converterStatus' = [converterStatus EXCEPT ![t] = 0]
    /\ trace' = [trace EXCEPT ![t] = << >>]
    /\ UNCHANGED << fdTable, criuOpts, exclusiveOwner, procVars, fieldIDs, calls >>

Next ==
    \E t \in Threads :
        \/ isCRIUSupportEnabledImpl(t)
        \/ isCheckpointAllowed(t)
        \/ CheckpointCall(t)
        \/ EnterVM(t)
        \/ OpenDir(t)
        \/ OpenWorkDir(t)
        \/ InitOpts(t)
        \/ SetOpts(t)
        \/ AcquireExclusive(t)
        \/ CheckpointHooks(t)
        \/ Dump(t)
        \/ RestoreHooks(t)
        \/ ReleaseExclusive(t)
        \/ CloseWorkDirFD(t)
        \/ FreeWorkDir(t)
        \/ Return(t)

Spec == Init /\ [][Next]_vars

\* ------------------------------------------------------------- claims
\* What the current invocation of thread t has done so far.
Opens(t) == CountOK(trace[t], "openDir") + CountOK(trace[t], "openWork")
CloseCalls(t) == Count(trace[t], "close")
Acquires(t) == Count(trace[t], "acquire")
Releases(t) == Count(trace[t], "release")
Did(t, op) == Has(trace[t], op)
DidFail(t, op) == Failed(trace[t], op)
DidSucceed(t, op) == Succeeded(trace[t], op)
\* Descriptors this invocation got from a successful open.
HandleFDs(t) ==
    { trace[t][i].fd : i \in { j \in DOMAIN trace[t] :
                                /\ trace[t][j].op \in {"openDir", "openWork"}
                                /\ trace[t][j].ret >= 0 } }
\* close calls this invocation made on descriptor fd.
ClosesOf(t, fd) ==
    Cardinality({ i \in DOMAIN trace[t] : trace[t][i].op = "close" /\ trace[t][i].fd = fd })
InCall(t) == pc[t] \notin {"idle", "crashed"}
\* An invocation that returns a CRIUResult returns one of this kind.  (An
\* invocation that read the result ids before setupJNIFieldIDs cached them
\* makes its JNI calls on NULL ids and returns nothing.)
Returns(t, kind) == Outcome(t) \in {kind, "crash"}

\* C1: an invocation made while isCheckpointAllowed is false goes straight to
\* its return statement with resultType UnsupportedOperation: it makes no
\* call to the outside (no open, no criu_init_opts, criu_set_*, criu_dump, no
\* hook, no close), never holds VM access or exclusive access, owns no
\* descriptor and leaves no option in libcriu.
C1_DisabledTouchesNothing ==
    \A t \in Threads :
        (~checkpointAllowed /\ InCall(t)) =>
            /\ pc[t] = "return"
            /\ trace[t] = << >>
            /\ ~vmAccess[t]
            /\ exclusiveOwner # t
            /\ \A fd \in FDs : fdTable[fd] # t
            /\ criuOpts.owner # t
            /\ Returns(t, "UnsupportedOperation")

C1_Witness ==
    \E t \in Threads :
        ~checkpointAllowed /\ pc[t] = "return" /\ Outcome(t) = "UnsupportedOperation"

\* C2: in one invocation exclusive access is acquired at most once, held
\* exactly between its acquire and its release, released exactly once by the
\* time the invocation returns, and never released without being held.
C2_ExclusivePaired ==
    \A t \in Threads :
        /\ Acquires(t) <= 1
        /\ Releases(t) <= Acquires(t)
        /\ (exclusiveOwner = t) <=> (Acquires(t) = 1 /\ Releases(t) = 0)
        /\ \A i \in DOMAIN trace[t] : trace[t][i].op = "release" => trace[t][i].owner = t
        /\ (AtReturn(t) \/ ~InCall(t)) => Releases(t) = Acquires(t)

C2_Witness ==
    \E t \in Threads :
        /\ AtReturn(t)
        /\ DidFail(t, "checkpointHooks")
        /\ Acquires(t) = 1
        /\ Releases(t) = 1

\* C3 (as claimed): when an invocation returns a result, it has called close
\* exactly once on every descriptor it got from a successful open.
C3_EachHandleClosedOnce ==
    \A t \in Threads :
        (AtReturn(t) /\ Outcome(t) # "crash") =>
            \A fd \in HandleFDs(t) : ClosesOf(t, fd) = 1

\* C4 (as claimed): when an invocation returns a result, every close it
\* called named a descriptor it had opened itself, and it called close as
\* often as open succeeded.
C4_ClosesOnlyOwnHandles ==
    \A t \in Threads :
        (AtReturn(t) /\ Outcome(t) # "crash") =>
            /\ CloseCalls(t) = Opens(t)
            /\ \A i \in DOMAIN trace[t] :
                trace[t][i].op = "close" => trace[t][i].fd \in HandleFDs(t)

\* C5: when the open of the image directory fails, the invocation makes no
\* further call to the outside (no work-directory open, no criu_init_opts, no
\* acquire, no close), and returns InvalidArguments.
C5_BadImageDir ==
    \A t \in Threads :
        DidFail(t, "openDir") =>
            /\ AtReturn(t)
            /\ trace[t][Len(trace[t])].op = "openDir"
            /\ Acquires(t) = 0
            /\ ~Did(t, "init")
            /\ CloseCalls(t) = 0
            /\ exclusiveOwner # t
            /\ Returns(t, "InvalidArguments")

C5_Witness ==
    \E t \in Threads :
        AtReturn(t) /\ DidFail(t, "openDir") /\ Outcome(t) = "InvalidArguments"

\* The invocation of thread t has opened its image directory and has not
\* yet left the steps up to the restore hooks.
Executing(t) ==
    /\ resultType[t] # "NULL"
    /\ DidSucceed(t, "openDir")
    /\ pc[t] \in {"openWork", "initOpts", "setOpts", "checkpointHooks", "dump", "restoreHooks"}

\* C6 (as claimed): two invocations are never both past the permission
\* check and between their first open and their last hook at the same time.
C6_OneCheckpointAtATime ==
    \A t \in Threads, u \in Threads : t # u => ~(Executing(t) /\ Executing(u))

\* C7: when the pre-checkpoint hooks fail, criu_dump is not called, the
\* restore hooks do not run, and the invocation returns JvmCheckpointFailure.
C7_CheckpointHooksFailed ==
    \A t \in Threads :
        DidFail(t, "checkpointHooks") =>
            /\ ~Did(t, "dump")
            /\ ~Did(t, "restoreHooks")
            /\ pc[t] \in {"releaseExclusive", "closeWorkDirFD", "freeWorkDir", "freeLog"}
            /\ Returns(t, "JvmCheckpointFailure")

C7_Witness ==
    \E t \in Threads :
        AtReturn(t) /\ DidFail(t, "checkpointHooks") /\ Outcome(t) = "JvmCheckpointFailure"

\* C8 (as claimed): when criu_dump returned a negative status, the restore
\* hooks do not run, and the invocation returns SystemCheckpointFailure with
\* no descriptor it opened still open.
C8_DumpFailed ==
    \A t \in Threads :
        DidFail(t, "dump") =>
            /\ ~Did(t, "restoreHooks")
            /\ AtReturn(t) =>
                /\ Returns(t, "SystemCheckpointFailure")
                /\ \A fd \in FDs : fdTable[fd] # t

\* C9: when criu_dump succeeded and the restore hooks failed, resultType is
\* JvmRestoreFailure from then on, whatever release and the closes do, and
\* that is what the invocation returns.
C9_RestoreHooksFailed ==
    \A t \in Threads :
        DidFail(t, "restoreHooks") =>
            /\ DidSucceed(t, "dump")
            /\ resultType[t] \in {"JvmRestoreFailure", "NULL"}
            /\ Returns(t, "JvmRestoreFailure")

C9_Witness ==
    \E t \in Threads :
        /\ AtReturn(t)
        /\ DidFail(t, "restoreHooks")
        /\ DidFail(t, "close")
        /\ Outcome(t) = "JvmRestoreFailure"

\* C10: when criu_dump and the restore hooks succeeded and a close then
\* failed, the invocation returns JvmRestoreFailure, not Success.
C10_CloseFailedAfterDump ==
    \A t \in Threads :
        (AtReturn(t) /\ DidSucceed(t, "dump") /\ DidSucceed(t, "restoreHooks") /\ DidFail(t, "close")) =>
            Returns(t, "JvmRestoreFailure")

C10_Witness ==
    \E t \in Threads :
        /\ AtReturn(t)
        /\ DidSucceed(t, "openWork")
        /\ DidSucceed(t, "restoreHooks")
        /\ \E i \in DOMAIN trace[t] :
            trace[t][i].op = "close" /\ trace[t][i].fd = workDirFD[t] /\ trace[t][i].ret < 0
        /\ Outcome(t) = "JvmRestoreFailure"

\* Every close of this invocation that failed did so because the descriptor
\* was not open (EBADF), not because of an I/O error.
NoCloseIOError(t) ==
    \A i \in DOMAIN trace[t] :
        (trace[t][i].op = "close" /\ trace[t][i].ret < 0) => trace[t][i].owner = "free"

\* C11 (as claimed): an invocation with an image directory that opens, no
\* work directory and no log file, for which criu_init_opts, the checkpoint
\* hooks, criu_dump and the restore hooks succeeded and no close met an I/O
\* error, returns Success, whether descriptor 0 was open or closed when the
\* call started.
C11_PlainRequestSucceeds ==
    \A t \in Threads :
        ( /\ AtReturn(t)
          /\ Outcome(t) # "crash"
          /\ ~request[t].hasLog
          /\ ~request[t].hasWorkDir
          /\ converterStatus[t] = 0
          /\ DidSucceed(t, "openDir")
          /\ DidSucceed(t, "init")
          /\ DidSucceed(t, "checkpointHooks")
          /\ DidSucceed(t, "dump")
          /\ DidSucceed(t, "restoreHooks")
          /\ NoCloseIOError(t) ) =>
            Outcome(t) = "Success"

\* C12 (as claimed): the queries isCRIUSupportEnabledImpl and
\* isCheckpointAllowed leave libcriu's options alone, so that in a process
\* whose only checkpointJVMImpl call is that of thread t, whatever queries
\* the other threads make meanwhile, criu_dump runs on the options thread t
\* set: its own image-directory descriptor and its own request.
C12_QueriesLeaveDumpConfiguration ==
    \A t \in Threads :
        (calls = 1 /\ InCall(t) /\ resultType[t] # "NULL") =>
            \A i \in DOMAIN trace[t] :
                (trace[t][i].op = "dump" /\ trace[t][i].ret >= 0) =>
                    /\ trace[t][i].owner = t
                    /\ trace[t][i].fd = dirFD[t]

\* C13 (as claimed): whatever calls of isCRIUSupportEnabledImpl,
\* isCheckpointAllowed and checkpointJVMImpl came before, including none, an
\* invocation of checkpointJVMImpl that reaches its return statement returns
\* a CRIUResult of one of the six kinds, and of kind UnsupportedOperation
\* when isCheckpointAllowed is false.
C13_EveryCallReturnsAnOutcome ==
    \A t \in Threads :
        AtReturn(t) =>
            /\ Outcome(t) \in ResultTypes
            /\ ~checkpointAllowed => Outcome(t) = "UnsupportedOperation"

\* C14 (as claimed): when criu_dump has not succeeded and a close fails, the
\* invocation still returns the classification of the earlier failure:
\* InvalidArguments when the open of the work directory failed,
\* SystemCheckpointFailure when criu_init_opts or criu_dump failed.
C14_CloseFailureKeepsClassification ==
    \A t \in Threads :
        ( /\ AtReturn(t)
          /\ Outcome(t) # "crash"
          /\ converterStatus[t] = 0
          /\ DidFail(t, "close")
          /\ ~DidSucceed(t, "dump") ) =>
            /\ DidFail(t, "openWork") => Outcome(t) = "InvalidArguments"
            /\ (DidFail(t, "init") \/ DidFail(t, "dump")) => Outcome(t) = "SystemCheckpointFailure"

\* C15 (as claimed): when criu_init_opts returned non-zero, the invocation
\* applies no option to libcriu, never acquires exclusive access, runs no
\* hook, does not call criu_dump, and returns SystemCheckpointFailure.
C15_InitFailed ==
    \A t \in Threads :
        (DidFail(t, "init") /\ converterStatus[t] = 0) =>
            /\ ~Did(t, "configure")
            /\ Acquires(t) = 0
            /\ exclusiveOwner # t
            /\ ~Did(t, "checkpointHooks")
            /\ ~Did(t, "dump")
            /\ ~Did(t, "restoreHooks")
            /\ AtReturn(t) => Returns(t, "SystemCheckpointFailure")

\* Every call `first` of this invocation comes before every call `second`.
Before(t, first, second) ==
    \A j \in DOMAIN trace[t] :
        trace[t][j].op = second =>
            \A i \in DOMAIN trace[t] : trace[t][i].op = first => i < j

\* C16: the forward steps of an invocation come in a fixed order.  Both
\* opens precede the acquisition of exclusive access; the checkpoint hooks
\* run after the acquisition, criu_dump after the checkpoint hooks have
\* succeeded, the restore hooks after criu_dump has succeeded and only then;
\* hooks and criu_dump run while this thread holds exclusive access, before
\* its release.
C16_ForwardOrder ==
    \A t \in Threads :
        /\ Before(t, "openDir", "acquire")
        /\ Before(t, "openWork", "acquire")
        /\ Did(t, "acquire") => DidSucceed(t, "openDir")
        /\ Did(t, "checkpointHooks") => Did(t, "acquire")
        /\ Before(t, "acquire", "checkpointHooks")
        /\ Did(t, "dump") => (DidSucceed(t, "checkpointHooks") /\ ~DidFail(t, "checkpointHooks"))
        /\ Before(t, "checkpointHooks", "dump")
        /\ Did(t, "restoreHooks") => (DidSucceed(t, "dump") /\ ~DidFail(t, "dump"))
        /\ Before(t, "dump", "restoreHooks")
        /\ \A op \in {"checkpointHooks", "dump", "restoreHooks"} : Before(t, op, "release")
        /\ \A i \in DOMAIN trace[t] :
            trace[t][i].op \in {"checkpointHooks", "restoreHooks"} => trace[t][i].owner = t
        /\ pc[t] \in {"checkpointHooks", "dump", "restoreHooks"} => exclusiveOwner = t

C16_Witness ==
    \E t \in Threads :
        /\ AtReturn(t)
        /\ DidSucceed(t, "openWork")
        /\ DidSucceed(t, "restoreHooks")
        /\ Releases(t) = 1
        /\ Outcome(t) = "Success"

\* The close calls of this invocation, in the order they were made.
Closes(t) == SelectSeq(trace[t], LAMBDA e : e.op = "close")

\* C17: an invocation that acquired exclusive access releases it before its
\* first close; an invocation that opened both directories calls close on
\* the work-directory descriptor first and on the image-directory
\* descriptor second, and makes no other close.
C17_ReleaseOrder ==
    \A t \in Threads :
        /\ Before(t, "release", "close")
        /\ (Did(t, "close") /\ Acquires(t) = 1) => Releases(t) = 1
        /\ DidSucceed(t, "openWork") =>
            /\ Len(Closes(t)) <= 2
            /\ Len(Closes(t)) >= 1 => Closes(t)[1].fd = workDirFD[t]
            /\ Len(Closes(t)) = 2 => Closes(t)[2].fd = dirFD[t]
            /\ AtReturn(t) => Len(Closes(t)) = 2

C17_Witness ==
    \E t \in Threads :
        /\ AtReturn(t)
        /\ DidSucceed(t, "openWork")
        /\ dirFD[t] # workDirFD[t]
        /\ Acquires(t) = 1
        /\ Releases(t) = 1
        /\ Len(Closes(t)) = 2

\* C18 (as claimed): when omrstr_convert returned a negative error code for
\* one of the paths of the request, in the size query or in the conversion,
\* that conversion is the last call the invocation makes to the outside (no
\* open follows it) and the invocation returns InvalidArguments.
C18_EncodingFailure ==
    \A t \in Threads :
        (InCall(t) /\ Outcome(t) # "crash" /\ converterStatus[t] < 0) =>
            /\ AtReturn(t)
            /\ trace[t][Len(trace[t])].op \in {"convDir", "convLog", "convWork"}
            /\ trace[t][Len(trace[t])].ret < 0
            /\ Returns(t, "InvalidArguments")

\* C19 (as claimed, for options set by checkpointJVMImpl invocations): an
\* invocation initialises and sets libcriu's options before it acquires
\* exclusive access, and when it is about to call criu_dump with options in
\* effect that some invocation set, they are the ones it set itself (its own
\* image-directory and work-directory descriptors, its own request) and the
\* descriptors they name are open and its own.
C19_DumpUsesOwnConfiguration ==
    \A t \in Threads :
        /\ Before(t, "init", "acquire")
        /\ Before(t, "configure", "acquire")
        /\ (pc[t] = "dump" /\ resultType[t] # "NULL" /\ criuOpts.owner # NoThread) =>
            /\ criuOpts.owner = t
            /\ criuOpts.images_dir_fd = dirFD[t]
            /\ fdTable[dirFD[t]] = t
            /\ request[t].hasWorkDir =>
                /\ criuOpts.work_dir_fd = workDirFD[t]
                /\ fdTable[workDirFD[t]] = t

\* Everything the orchestration itself can see went well in this
\* invocation: the gate was open, each call to the outside returned success,
\* exclusive access was acquired and released, and no exception is pending.
NothingSeenFailing(t) ==
    /\ checkpointAllowed
    /\ \A i \in DOMAIN trace[t] : trace[t][i].ret >= 0
    /\ DidSucceed(t, "convDir")
    /\ DidSucceed(t, "openDir")
    /\ request[t].hasLog => DidSucceed(t, "convLog")
    /\ request[t].hasWorkDir => (DidSucceed(t, "convWork") /\ DidSucceed(t, "openWork"))
    /\ DidSucceed(t, "init")
    /\ DidSucceed(t, "checkpointHooks")
    /\ DidSucceed(t, "dump")
    /\ DidSucceed(t, "restoreHooks")
    /\ Acquires(t) = 1
    /\ Releases(t) = 1
    /\ exclusiveOwner # t
    /\ currentException[t] = "none"

\* C20 (as claimed): an invocation returns Success only when nothing failed:
\* every path conversion (omrstr_convert reported no error), every open,
\* criu_init_opts, both hook phases, criu_dump and every close succeeded,
\* exclusive access was acquired and released, and no exception was set.
C20_SuccessMeansNothingFailed ==
    \A t \in Threads :
        (AtReturn(t) /\ Outcome(t) = "Success") =>
            /\ NothingSeenFailing(t)
            /\ converterStatus[t] = 0

====
